---- MODULE Spec2Model ----
(***************************************************************************)
(* GFormFetcher (src/src/server.ts): one puppeteer browser/page logged in  *)
(* at startup, an express handler GET /fetch-form that serves pages from   *)
(* an in-memory cache or through the shared page, and a signal-driven      *)
(* shutdown.  Every `await` of the source is a suspension point: the code  *)
(* up to it runs atomically, the awaited promise settles in a later step.  *)
(***************************************************************************)
EXTENDS Integers, Sequences, FiniteSets, TLC

\* ---------------------------------------------------------------- bounds
MaxInFlight == 2      \* fetch requests being handled at the same time
MaxRequests == 4      \* fetch requests received over the life of the process
MaxSignals == 2       \* termination signals delivered to the process

\* ------------------------------------------------------------ value sets
URLs == {"u1", "u2"}

\* documents the shared page can show
Docs == URLs \cup {"blank", "login"}

\* formCache.get(url) of a missing key
Absent == <<>>

\* page.content(): the serialized HTML of the document the page shows
ContentOf(doc) == <<"html", doc>>

\* req.query.url as the express query parser delivers it: absent key,
\* a single string (possibly empty), or an array for a repeated key
Queries ==
  {[type |-> "undefined", val |-> ""], [type |-> "string", val |-> ""],
   [type |-> "array", val |-> "u1"]}
    \cup {[type |-> "string", val |-> u] : u \in URLs}

\* every string a request can carry as url: the keys formCache can be asked for
CacheKeys == {q.val : q \in Queries}

\* JavaScript truthiness of req.query.url
Falsy(q) == q.type = "undefined" \/ (q.type = "string" /\ q.val = "")

IsValidUrl_NoEmptyCheck(q) == q.type = "string"

\* the negation of `!url || typeof url !== "string"`
IsValidUrl(q) == ~Falsy(q) /\ q.type = "string"

\* ------------------------------------------------------------- responses
BadRequest == [status |-> 400, body |-> Absent, error |-> "URL is required and must be a string"]

NotInitialized == [status |-> 500, body |-> Absent, error |-> "Browser not initialized"]

FetchFailed_Rethrow == [status |-> 0, body |-> Absent, error |-> "uncaught"]

FetchFailed == [status |-> 500, body |-> Absent, error |-> "Failed to fetch form"]

\* res.send(html): status 200, the body is the HTML
Ok(html) == [status |-> 200, body |-> html, error |-> ""]

\* process.exit(0) of shutdown
ShutdownExitCode == 0

StartupFailureExitCode_Zero == ShutdownExitCode

\* process.exit(1) of startServer().catch
StartupFailureExitCode == 1

VARIABLES
  browser,         \* the global `browser`: "null", "live", or "closed" (reference kept, close() called)
  persistentPage,  \* the global `persistentPage`, same values
  pageDoc,         \* the document the page shows
  formCache,       \* formCache: URL -> HTML, Absent for a missing key
  initPc,          \* position of initializeBrowser / startServer
  listening,       \* app.listen has been called
  exited,          \* process.exit has been called
  exitCode,        \* its argument
  sd,              \* position of each invocation of shutdown
  req,             \* the fetchFormHandler invocations in flight
  started,         \* number of requests received so far
  lastResp,        \* the most recent response sent
  firstBody,       \* history: body of the first 200 sent for each URL
  sdPageCloses,    \* history: persistentPage.close() calls made by shutdown
  navFailed,       \* history: some request failed in navigation or capture
  hist             \* history of initializeBrowser and of the close() calls

vars == <<browser, persistentPage, pageDoc, formCache, initPc, listening, exited,
          exitCode, sd, req, started, lastResp, firstBody, sdPageCloses, navFailed,
          hist>>

\* ------------------------------------------------- initializeBrowser steps
\* awaits of the common prefix, in order
PrefixPcs == {"launch", "newPage", "gotoLogin", "typeEmail", "clickNext",
              "waitSelector", "evaluate"}

\* awaits of the verification branch
ChallengePcs == {"findOption", "clickOption", "waitNavOption", "waitCodeInput",
                 "prompt", "typeCode", "clickSubmit", "waitNavCode"}

\* awaits of the password branch
PasswordPcs == {"typePasswd", "clickPasswd", "waitNavPasswd"}

\* awaits of the catch block, and the state after `throw err`
CatchPcs == {"catchPage", "catchBrowser"}

FailedPcs == CatchPcs \cup {"thrown"}

\* awaits on the browser or the page, which may reject
BrowserOpPcs == (PrefixPcs \cup ChallengePcs \cup PasswordPcs) \ {"prompt"}

NextPc_PromptUnresolved(pc) ==
  CASE pc = "launch"        -> "newPage"
    [] pc = "newPage"       -> "gotoLogin"
    [] pc = "gotoLogin"     -> "typeEmail"
    [] pc = "typeEmail"     -> "clickNext"
    [] pc = "clickNext"     -> "waitSelector"
    [] pc = "waitSelector"  -> "evaluate"
    [] pc = "clickOption"   -> "waitNavOption"
    [] pc = "waitNavOption" -> "waitCodeInput"
    [] pc = "waitCodeInput" -> "prompt"
    [] pc = "typeCode"      -> "clickSubmit"
    [] pc = "clickSubmit"   -> "waitNavCode"
    [] pc = "waitNavCode"   -> "done"
    [] pc = "typePasswd"    -> "clickPasswd"
    [] pc = "clickPasswd"   -> "waitNavPasswd"
    [] pc = "waitNavPasswd" -> "done"
    [] OTHER                -> pc

\* the await that follows a resolved one, when control does not branch
NextPc(pc) ==
  CASE pc = "launch"        -> "newPage"
    [] pc = "newPage"       -> "gotoLogin"
    [] pc = "gotoLogin"     -> "typeEmail"
    [] pc = "typeEmail"     -> "clickNext"
    [] pc = "clickNext"     -> "waitSelector"
    [] pc = "waitSelector"  -> "evaluate"
    [] pc = "clickOption"   -> "waitNavOption"
    [] pc = "waitNavOption" -> "waitCodeInput"
    [] pc = "waitCodeInput" -> "prompt"
    [] pc = "prompt"        -> "typeCode"
    [] pc = "typeCode"      -> "clickSubmit"
    [] pc = "clickSubmit"   -> "waitNavCode"
    [] pc = "waitNavCode"   -> "done"
    [] pc = "typePasswd"    -> "clickPasswd"
    [] pc = "clickPasswd"   -> "waitNavPasswd"
    [] pc = "waitNavPasswd" -> "done"
    [] OTHER                -> pc

Signalled == \E i \in 1..MaxSignals : sd[i] # "idle"

\* the Session state of the design, read off the code's position
SessionState ==
  CASE initPc \in FailedPcs    -> "Failed"
    [] Signalled               -> "Closed"
    [] initPc = "start"        -> "Uninitialized"
    [] initPc \in ChallengePcs -> "AwaitingChallenge"
    [] initPc = "done"         -> "Authenticated"
    [] OTHER                   -> "LoggingIn"

\* nothing has happened yet: no error caught by or surfaced from
\* initializeBrowser, no branch taken, nothing acquired, no close() resolved
NoHist == [caughtErr |-> "none", surfacedErr |-> "none", challenge |-> "unknown",
           secretTyped |-> FALSE, prompted |-> FALSE, codeTyped |-> FALSE,
           optionAbsent |-> FALSE, browserAcquired |-> FALSE, pageAcquired |-> FALSE,
           pageCloseDone |-> FALSE, browserCloseDone |-> FALSE]

\* no response sent yet
NoResp == [query |-> [type |-> "undefined", val |-> ""], status |-> 0, body |-> Absent,
           error |-> "", navs |-> 0, late |-> FALSE, sess |-> "", cached |-> Absent]

\* a handler slot with no request in it
IdleReq == [pc |-> "idle", query |-> [type |-> "undefined", val |-> ""], late |-> FALSE,
            sess |-> "", cached |-> Absent]

Init ==
  /\ browser = "null"
  /\ persistentPage = "null"
  /\ pageDoc = "blank"
  /\ formCache = [u \in CacheKeys |-> Absent]
  /\ initPc = "start"
  /\ listening = FALSE
  /\ exited = FALSE
  /\ exitCode = 0
  /\ sd = [i \in 1..MaxSignals |-> "idle"]
  /\ req = [s \in 1..MaxInFlight |-> IdleReq]
  /\ started = 0
  /\ lastResp = NoResp
  /\ firstBody = [u \in CacheKeys |-> Absent]
  /\ sdPageCloses = 0
  /\ navFailed = FALSE
  /\ hist = NoHist


\* ------------------------------------------------------------ startServer
ListenReached_NoAwait(pc) == pc # "start"

\* startServer: app.listen runs once `await initializeBrowser()` has resolved
ListenReached(pc) == pc = "done"

\* what the awaited operation needs in order to resolve
ResourcesOk(pc) ==
  CASE pc \in {"launch", "prompt"} -> TRUE
    [] pc = "newPage"              -> browser = "live"
    [] OTHER                       -> browser = "live" /\ persistentPage = "live"

\* `throw err` leaves initializeBrowser; startServer().catch exits the process
Thrown(b, p) ==
  /\ browser' = b
  /\ persistentPage' = p
  /\ initPc' = "thrown"
  /\ exited' = TRUE
  /\ exitCode' = StartupFailureExitCode

\* entry of the catch block, up to its first await
EnterCatch ==
  IF persistentPage # "null"
    THEN /\ persistentPage' = "closed"
         /\ initPc' = "catchPage"
         /\ UNCHANGED <<browser, exited, exitCode>>
    ELSE IF browser # "null"
           THEN /\ browser' = "closed"
                /\ initPc' = "catchBrowser"
                /\ UNCHANGED <<persistentPage, exited, exitCode>>
           ELSE Thrown("null", "null")

\* the error e enters the catch block; with nothing to close it is rethrown at once
CatchHist(h, e) ==
  [h EXCEPT !.caughtErr = e,
            !.surfacedErr = IF persistentPage = "null" /\ browser = "null" THEN e ELSE "none"]

BranchPc_AlwaysPassword(isVerificationPrompt) == "typePasswd"

\* `if (isVerificationPrompt) ... else ...`: the first await of the branch taken
BranchPc(isVerificationPrompt) ==
  IF isVerificationPrompt THEN "findOption" ELSE "typePasswd"

\* startServer() is called: initializeBrowser runs up to puppeteer.launch
StartServer ==
  /\ ~exited
  /\ initPc = "start"
  /\ initPc' = "launch"
  /\ listening' = ListenReached("start")
  /\ UNCHANGED <<browser, persistentPage, pageDoc, formCache, exited, exitCode, sd,
                 req, started, lastResp, firstBody, sdPageCloses, navFailed, hist>>

\* the awaited operation of the try block resolves
InitResolve ==
  /\ ~exited
  /\ initPc \in PrefixPcs \cup ChallengePcs \cup PasswordPcs
  /\ ResourcesOk(initPc)
  /\ \/ /\ initPc = "launch"
        /\ browser' = "live"
        /\ initPc' = NextPc(initPc)
        /\ hist' = [hist EXCEPT !.browserAcquired = TRUE]
        /\ UNCHANGED <<persistentPage, pageDoc, exited, exitCode>>
     \/ /\ initPc = "newPage"
        /\ persistentPage' = "live"
        /\ pageDoc' = "blank"
        /\ initPc' = NextPc(initPc)
        /\ hist' = [hist EXCEPT !.pageAcquired = TRUE]
        /\ UNCHANGED <<browser, exited, exitCode>>
     \/ /\ initPc = "gotoLogin"
        /\ pageDoc' = "login"
        /\ initPc' = NextPc(initPc)
        /\ UNCHANGED <<browser, persistentPage, exited, exitCode, hist>>
     \/ /\ initPc = "evaluate"
        /\ \E isVerificationPrompt \in BOOLEAN :
             /\ initPc' = BranchPc(isVerificationPrompt)
             /\ hist' = [hist EXCEPT
                           !.challenge = IF isVerificationPrompt THEN "yes" ELSE "no",
                           !.secretTyped = (initPc' = "typePasswd")]
        /\ UNCHANGED <<browser, persistentPage, pageDoc, exited, exitCode>>
     \/ /\ initPc = "findOption"
        /\ \E gmailOption \in BOOLEAN :
             IF gmailOption
               THEN /\ initPc' = "clickOption"
                    /\ UNCHANGED <<browser, persistentPage, exited, exitCode, hist>>
               ELSE /\ EnterCatch
                    /\ hist' = [CatchHist(hist, "optionNotFound") EXCEPT
                                  !.optionAbsent = TRUE]
        /\ UNCHANGED pageDoc
     \/ /\ initPc \notin {"launch", "newPage", "gotoLogin", "evaluate", "findOption"}
        /\ initPc' = NextPc(initPc)
        /\ hist' = [hist EXCEPT !.prompted = @ \/ initPc' = "prompt",
                                !.codeTyped = @ \/ initPc' = "typeCode"]
        /\ UNCHANGED <<browser, persistentPage, pageDoc, exited, exitCode>>
  /\ listening' = ListenReached(initPc')
  /\ UNCHANGED <<formCache, sd, req, started, lastResp, firstBody, sdPageCloses, navFailed>>

\* the awaited browser operation of the try block rejects
InitReject ==
  /\ ~exited
  /\ initPc \in BrowserOpPcs
  /\ EnterCatch
  /\ hist' = CatchHist(hist, "step")
  /\ UNCHANGED <<pageDoc, formCache, listening, sd, req, started, lastResp, firstBody,
                 sdPageCloses, navFailed>>

\* a close() awaited in the catch block settles
InitCatchSettle ==
  /\ ~exited
  /\ initPc \in CatchPcs
  /\ \E ok \in BOOLEAN :
       IF ~ok
         THEN /\ Thrown(browser, persistentPage)
              /\ hist' = [hist EXCEPT !.surfacedErr = "close"]
         ELSE IF initPc = "catchPage" /\ browser # "null"
                THEN /\ browser' = "closed"
                     /\ initPc' = "catchBrowser"
                     /\ hist' = [hist EXCEPT !.pageCloseDone = TRUE]
                     /\ UNCHANGED <<persistentPage, exited, exitCode>>
                ELSE /\ Thrown("null", "null")
                     /\ hist' = [hist EXCEPT
                                   !.pageCloseDone = @ \/ initPc = "catchPage",
                                   !.browserCloseDone = @ \/ initPc = "catchBrowser",
                                   !.surfacedErr = hist.caughtErr]
  /\ UNCHANGED <<pageDoc, formCache, listening, sd, req, started, lastResp, firstBody,
                 sdPageCloses, navFailed>>

\* ---------------------------------------------------------------- shutdown
\* rl.close(); process.exit(0)
ShutdownExit ==
  /\ exited' = TRUE
  /\ exitCode' = ShutdownExitCode

SdNext_SkipBrowser(pc, b) == "exited"

\* where shutdown goes once the close() awaited at pc has resolved: on to
\* `if (browser) await browser.close()`, or to rl.close() and process.exit
SdNext(pc, b) == IF pc = "closePage" /\ b # "null" THEN "closeBrowser" ELSE "exited"

\* SIGINT or SIGTERM: shutdown runs up to its first await
Signal(i) ==
  /\ ~exited
  /\ sd[i] = "idle"
  /\ \A j \in 1..(i - 1) : sd[j] # "idle"
  /\ IF persistentPage # "null"
       THEN /\ persistentPage' = "closed"
            /\ sdPageCloses' = sdPageCloses + 1
            /\ sd' = [sd EXCEPT ![i] = "closePage"]
            /\ UNCHANGED <<browser, exited, exitCode>>
       ELSE IF browser # "null"
              THEN /\ browser' = "closed"
                   /\ sd' = [sd EXCEPT ![i] = "closeBrowser"]
                   /\ UNCHANGED <<persistentPage, sdPageCloses, exited, exitCode>>
              ELSE /\ ShutdownExit
                   /\ sd' = [sd EXCEPT ![i] = "exited"]
                   /\ UNCHANGED <<browser, persistentPage, sdPageCloses>>
  /\ UNCHANGED <<pageDoc, formCache, initPc, listening, req, started, lastResp,
                 firstBody, navFailed, hist>>

\* a close() awaited by shutdown settles
ShutdownSettle(i) ==
  /\ ~exited
  /\ sd[i] \in {"closePage", "closeBrowser"}
  /\ \E ok \in BOOLEAN :
       IF ~ok
         THEN /\ sd' = [sd EXCEPT ![i] = "rejected"]
              /\ UNCHANGED <<browser, exited, exitCode, hist>>
         ELSE /\ sd' = [sd EXCEPT ![i] = SdNext(sd[i], browser)]
              /\ hist' = [hist EXCEPT !.pageCloseDone = @ \/ sd[i] = "closePage",
                                      !.browserCloseDone = @ \/ sd[i] = "closeBrowser"]
              /\ IF sd'[i] = "closeBrowser"
                   THEN /\ browser' = "closed"
                        /\ UNCHANGED <<exited, exitCode>>
                   ELSE /\ ShutdownExit
                        /\ UNCHANGED browser
  /\ UNCHANGED <<persistentPage, pageDoc, formCache, initPc, listening, req, started,
                 lastResp, firstBody, sdPageCloses, navFailed>>

\* ------------------------------------------------------- fetchFormHandler
\* the response r to the request of slot s is sent
Respond(s, q, r, navs, late, sess, cached) ==
  /\ lastResp' = [query |-> q, status |-> r.status, body |-> r.body, error |-> r.error,
                  navs |-> navs, late |-> late, sess |-> sess, cached |-> cached]
  /\ firstBody' = IF r.status = 200 /\ firstBody[q.val] = Absent
                    THEN [firstBody EXCEPT ![q.val] = r.body]
                    ELSE firstBody
  /\ req' = [req EXCEPT ![s] = IdleReq]

CacheHas_Never(k) == FALSE

\* formCache.has(url)
CacheHas(k) == formCache[k] # Absent

\* GET /fetch-form arrives: the handler runs up to persistentPage.goto
FetchStart(s, q) ==
  /\ ~exited
  /\ listening
  /\ req[s].pc = "idle"
  /\ started < MaxRequests
  /\ started' = started + 1
  /\ IF ~IsValidUrl(q)
       THEN Respond(s, q, BadRequest, 0, firstBody[q.val] # Absent, SessionState,
                    formCache[q.val])
       ELSE IF browser = "null" \/ persistentPage = "null"
              THEN Respond(s, q, NotInitialized, 0, firstBody[q.val] # Absent,
                           SessionState, formCache[q.val])
              ELSE IF CacheHas(q.val)
                     THEN Respond(s, q, Ok(formCache[q.val]), 0,
                                  firstBody[q.val] # Absent, SessionState, formCache[q.val])
                     ELSE /\ req' = [req EXCEPT ![s] =
                                       [pc |-> "goto", query |-> q,
                                        late |-> firstBody[q.val] # Absent,
                                        sess |-> SessionState,
                                        cached |-> formCache[q.val]]]
                          /\ UNCHANGED <<lastResp, firstBody>>
  /\ UNCHANGED <<browser, persistentPage, pageDoc, formCache, initPc, listening, exited,
                 exitCode, sd, sdPageCloses, navFailed, hist>>

\* persistentPage.goto resolves: the page shows url; content() is called
FetchGotoResolve(s) ==
  /\ ~exited
  /\ req[s].pc = "goto"
  /\ browser = "live" /\ persistentPage = "live"
  /\ pageDoc' = req[s].query.val
  /\ req' = [req EXCEPT ![s].pc = "content"]
  /\ UNCHANGED <<browser, persistentPage, formCache, initPc, listening, exited, exitCode,
                 sd, started, lastResp, firstBody, sdPageCloses, navFailed, hist>>

\* persistentPage.content resolves: cache the HTML and send it
FetchContentResolve(s) ==
  /\ ~exited
  /\ req[s].pc = "content"
  /\ browser = "live" /\ persistentPage = "live"
  /\ formCache' = [formCache EXCEPT ![req[s].query.val] = ContentOf(pageDoc)]
  /\ Respond(s, req[s].query, Ok(ContentOf(pageDoc)), 1, req[s].late, req[s].sess,
             req[s].cached)
  /\ UNCHANGED <<browser, persistentPage, pageDoc, initPc, listening, exited, exitCode,
                 sd, started, sdPageCloses, navFailed, hist>>

FetchReject_CachesFailure(s) ==
  /\ ~exited
  /\ req[s].pc \in {"goto", "content"}
  /\ Respond(s, req[s].query, FetchFailed, 1, req[s].late, req[s].sess, req[s].cached)
  /\ navFailed' = TRUE
  /\ formCache' = [formCache EXCEPT ![req[s].query.val] = ContentOf(pageDoc)]
  /\ UNCHANGED <<browser, persistentPage, pageDoc, initPc, listening, exited,
                 exitCode, sd, started, sdPageCloses, hist>>

FetchReject_ClosesPage(s) ==
  /\ ~exited
  /\ req[s].pc \in {"goto", "content"}
  /\ Respond(s, req[s].query, FetchFailed, 1, req[s].late, req[s].sess, req[s].cached)
  /\ navFailed' = TRUE
  /\ persistentPage' = "closed"
  /\ UNCHANGED <<browser, pageDoc, formCache, initPc, listening, exited,
                 exitCode, sd, started, sdPageCloses, hist>>

\* goto or content rejects: the catch block answers
FetchReject(s) ==
  /\ ~exited
  /\ req[s].pc \in {"goto", "content"}
  /\ Respond(s, req[s].query, FetchFailed, 1, req[s].late, req[s].sess, req[s].cached)
  /\ navFailed' = TRUE
  /\ UNCHANGED <<browser, persistentPage, pageDoc, formCache, initPc, listening, exited,
                 exitCode, sd, started, sdPageCloses, hist>>

Next ==
  \/ StartServer
  \/ InitResolve
  \/ InitReject
  \/ InitCatchSettle
  \/ \E i \in 1..MaxSignals : Signal(i)
  \/ \E i \in 1..MaxSignals : ShutdownSettle(i)
  \/ \E s \in 1..MaxInFlight, q \in Queries : FetchStart(s, q)
  \/ \E s \in 1..MaxInFlight : FetchGotoResolve(s)
  \/ \E s \in 1..MaxInFlight : FetchContentResolve(s)
  \/ \E s \in 1..MaxInFlight : FetchReject(s)

Spec == Init /\ [][Next]_vars

\* every browser operation awaited by initializeBrowser eventually resolves or
\* rejects, and the human eventually answers the prompt
LiveSpec ==
  /\ Init
  /\ [][Next]_vars
  /\ WF_vars(StartServer)
  /\ WF_vars(InitResolve \/ InitReject)
  /\ WF_vars(InitCatchSettle)

TypeOK ==
  /\ browser \in {"null", "live", "closed"}
  /\ persistentPage \in {"null", "live", "closed"}
  /\ pageDoc \in Docs
  /\ \A u \in CacheKeys : formCache[u] \in {Absent} \cup {ContentOf(d) : d \in Docs}
  /\ listening \in BOOLEAN
  /\ exited \in BOOLEAN
  /\ exitCode \in {0, 1}
  /\ started \in 0..MaxRequests
  /\ sdPageCloses \in 0..MaxSignals


\* ------------------------------------------------------------- properties
\* the url of a request is missing, empty or not a single string
Malformed(q) == q.type # "string" \/ q.val = ""

Answered == lastResp.status # 0

\* C1: once a fetch of u returned 200 with HTML H, every fetch of u that starts
\* later with the session Authenticated returns 200 with body H and navigates nothing
C1_FetchIdempotent ==
  (Answered /\ ~Malformed(lastResp.query) /\ lastResp.late /\ lastResp.sess = "Authenticated")
    => /\ lastResp.status = 200
       /\ lastResp.body = firstBody[lastResp.query.val]
       /\ lastResp.navs = 0

\* C2: the HTML cached under u, and the HTML sent with 200 for u, is the content
\* of the document of u
C2_CacheIntegrity ==
  /\ \A u \in CacheKeys : formCache[u] # Absent => formCache[u] = ContentOf(u)
  /\ (lastResp.status = 200) => lastResp.body = ContentOf(lastResp.query.val)

\* C3: a cache entry, once written, is never removed and never changes
C3_WriteOnce ==
  [][\A u \in CacheKeys : formCache[u] # Absent => formCache'[u] = formCache[u]]_vars

\* C4: a request with a valid url that arrives in a session state other than
\* Authenticated is answered 500 "Browser not initialized" without using the page
C4_Guard ==
  (Answered /\ ~Malformed(lastResp.query) /\ lastResp.sess # "Authenticated")
    => /\ lastResp.status = 500
       /\ lastResp.error = "Browser not initialized"
       /\ lastResp.navs = 0

\* C5: a request whose url is missing, empty or not a single string is answered
\* 400 "URL is required and must be a string" at once, in every session state,
\* and the step that answers it leaves the page and the cache alone
C5_Validation ==
  /\ [](\A s \in 1..MaxInFlight : req[s].pc # "idle" => ~Malformed(req[s].query))
  /\ []((Answered /\ Malformed(lastResp.query))
          => /\ lastResp.status = 400
             /\ lastResp.error = "URL is required and must be a string"
             /\ lastResp.body = Absent
             /\ lastResp.navs = 0)
  /\ [][(started' # started /\ Malformed(lastResp'.query) /\ lastResp' # lastResp)
          => /\ formCache' = formCache
             /\ pageDoc' = pageDoc
             /\ persistentPage' = persistentPage
             /\ req' = req]_vars

C5_Witness ==
  /\ lastResp.status = 400
  /\ lastResp.sess = "Closed"
  /\ \E u \in URLs : formCache[u] # Absent

\* C6: the transport accepts requests, and a request is being handled or has
\* been answered, only after initializeBrowser has resolved
C6_StartupOrdering ==
  /\ listening => initPc = "done"
  /\ \A s \in 1..MaxInFlight : req[s].pc # "idle" => initPc = "done"
  /\ (Answered \/ started > 0) => initPc = "done"

C6_Witness == listening /\ lastResp.status = 200 /\ \E s \in 1..MaxInFlight : req[s].pc = "goto"

\* C7: once a termination signal has been received the process exits with code 0
C7_SignalExitsZero == (Signalled /\ exited) => exitCode = 0

\* C8 as stated: when initializeBrowser has failed the transport never listens
\* and the process exits with code 1
C8_FailureExitsOne ==
  initPc \in FailedPcs => (~listening /\ (exited => exitCode = 1))

\* C8 amended: when initializeBrowser fails it is not retried and the transport
\* never listens; the process exits with code 1 when the error reaches
\* startServer's caller, and an exit before that is the exit 0 of a shutdown
\* started by a termination signal
C8_FatalStartup ==
  /\ [](initPc \in FailedPcs => ~listening)
  /\ [](initPc = "thrown" => (exited /\ exitCode = 1))
  /\ []((initPc \in CatchPcs /\ exited) => (Signalled /\ exitCode = 0))
  /\ [][(initPc \in FailedPcs) => (initPc' \in FailedPcs)]_vars

C8_Witness == initPc = "thrown" /\ exited /\ exitCode = 1 /\ ~listening /\ browser = "null"

\* C9: the shutdown path, however often it is invoked, closes the page at most once
C9_ShutdownIdempotent == sdPageCloses <= 1

\* C10: a request whose navigation or capture fails is answered 500 "Failed to
\* fetch form"; that step neither exits the process nor stops the transport,
\* and after such a failure the process exits only through a termination signal
C10_RequestLocalFailure ==
  /\ []((navFailed /\ exited) => (Signalled /\ exitCode = 0))
  /\ [](navFailed => listening)
  /\ [][(\E s \in 1..MaxInFlight :
           req[s].pc \in {"goto", "content"} /\ req'[s].pc = "idle" /\ lastResp'.status # 200)
          => /\ lastResp'.status = 500
             /\ lastResp'.error = "Failed to fetch form"
             /\ navFailed'
             /\ exited' = exited
             /\ listening' = listening]_vars

C10_Witness == navFailed /\ ~exited /\ lastResp.status = 200 /\ lastResp.navs = 1


\* C11: a request with a valid url that finds the url in the cache, the session
\* being Authenticated, is answered 200 with exactly the cached value in the
\* step it arrives in; it never goes on to use the page, and that step leaves
\* the cache and the page as they were
C11_CacheHitShortCircuit ==
  /\ [](\A s \in 1..MaxInFlight : req[s].pc # "idle" => req[s].cached = Absent)
  /\ []((Answered /\ ~Malformed(lastResp.query) /\ lastResp.cached # Absent
           /\ lastResp.sess = "Authenticated")
          => /\ lastResp.status = 200
             /\ lastResp.body = lastResp.cached
             /\ lastResp.navs = 0)
  /\ [][(started' # started /\ req' = req /\ ~Malformed(lastResp'.query)
           /\ lastResp'.cached # Absent)
          => /\ formCache' = formCache
             /\ pageDoc' = pageDoc
             /\ lastResp'.body = formCache[lastResp'.query.val]]_vars

C11_Witness ==
  /\ lastResp.status = 200 /\ lastResp.navs = 0 /\ lastResp.sess = "Authenticated"
  /\ lastResp.cached = ContentOf(lastResp.query.val)
  /\ \E s \in 1..MaxInFlight : req[s].pc = "content"

\* C12: at most one navigate-then-capture on the shared page is in flight
C12_PageSerialized ==
  Cardinality({s \in 1..MaxInFlight : req[s].pc \in {"goto", "content"}}) <= 1


\* C13: when initializeBrowser has thrown to its caller, the page and the
\* browser are closed if they had been acquired, both references are null, and
\* the error thrown is the error of the failing step
C13_InitFailureCleanup ==
  initPc = "thrown"
    => /\ browser = "null" /\ persistentPage = "null"
       /\ hist.pageAcquired => hist.pageCloseDone
       /\ hist.browserAcquired => hist.browserCloseDone
       /\ hist.surfacedErr = hist.caughtErr

\* C14: Authenticated implies browser and page live; Closed (shutdown started)
\* or Failed (initializeBrowser has thrown) implies both closed and both
\* references null
C14_SessionResources ==
  /\ SessionState = "Authenticated" => (browser = "live" /\ persistentPage = "live")
  /\ (SessionState = "Closed" \/ (SessionState = "Failed" /\ initPc = "thrown"))
       => /\ browser = "null" /\ persistentPage = "null"
          /\ hist.pageAcquired => hist.pageCloseDone
          /\ hist.browserAcquired => hist.browserCloseDone

\* C15: the password is never typed in a run where a challenge was detected, no
\* code is requested or typed in a run where none was, a successful login has
\* done exactly one of the two, and a failed initializeBrowser never succeeds
C15_BranchExclusive ==
  /\ [](~(hist.secretTyped /\ hist.challenge # "no"))
  /\ []((hist.prompted \/ hist.codeTyped) => hist.challenge = "yes")
  /\ [](initPc = "done" => (hist.secretTyped # hist.codeTyped))
  /\ [][(initPc \in FailedPcs) => (initPc' # "done" /\ SessionState' # "Authenticated")]_vars

C15_Witness ==
  /\ initPc = "done" /\ listening
  /\ hist.challenge = "yes" /\ hist.codeTyped /\ ~hist.secretTyped

\* C16: when a challenge is detected and the email option is absent, the human
\* is never prompted, the session is Failed and never Authenticated, and the
\* error initializeBrowser throws is "verification option not found"
C16_MissingOption ==
  hist.optionAbsent
    => /\ ~hist.prompted
       /\ SessionState = "Failed"
       /\ ~listening
       /\ hist.caughtErr = "optionNotFound"
       /\ initPc = "thrown" => hist.surfacedErr = "optionNotFound"


\* C17: unless a termination signal interrupts it, initializeBrowser eventually
\* returns to its caller, resolved (Authenticated) or rejected (Failed); when
\* it resolves the transport is listening; and while the code is awaited the
\* only step initializeBrowser takes is the arrival of the code: no timeout
\* fails it
C17_LoginLiveness ==
  /\ <>(initPc \in {"done", "thrown"} \/ Signalled)
  /\ [](initPc = "done" => (listening /\ hist.caughtErr = "none"))
  /\ [][(initPc = "prompt")
          => (initPc' \in {"prompt", "typeCode"} /\ hist'.caughtErr = "none")]_vars

C17_Witness ==
  /\ initPc = "done" /\ listening /\ ~Signalled
  /\ hist.prompted /\ hist.codeTyped /\ hist.caughtErr = "none"
  /\ browser = "live" /\ persistentPage = "live"


\* C18: shutdown calls browser.close() only once the page, if there is one, has
\* been closed, and when shutdown has exited the process (code 0) every
\* resource still referenced has been closed
C18_ShutdownOrdering ==
  /\ [][\A i \in 1..MaxSignals :
          (sd'[i] = "closeBrowser" /\ sd[i] # "closeBrowser")
            => (persistentPage = "null" \/ (sd[i] = "closePage" /\ hist'.pageCloseDone))]_vars
  /\ [](\A i \in 1..MaxSignals :
          sd[i] = "exited"
            => /\ exited /\ exitCode = 0
               /\ persistentPage # "null" => hist.pageCloseDone
               /\ browser # "null" => hist.browserCloseDone)
  /\ []((exited /\ exitCode = 0) => \E i \in 1..MaxSignals : sd[i] = "exited")

C18_Witness ==
  /\ exited /\ exitCode = 0
  /\ hist.pageCloseDone /\ hist.browserCloseDone
  /\ browser = "closed" /\ persistentPage = "closed"
  /\ \E s \in 1..MaxInFlight : req[s].pc # "idle"

\* C19: the cache changes only in the step that answers a miss with 200, and
\* only at that request's own url; a step that answers 400 or 500 leaves it alone
C19_FailedFetchKeepsCache ==
  /\ [][formCache' # formCache
          => /\ lastResp'.status = 200 /\ lastResp'.navs = 1
             /\ \E s \in 1..MaxInFlight :
                  /\ req[s].pc = "content" /\ req'[s].pc = "idle"
                  /\ lastResp'.query = req[s].query
                  /\ formCache' = [formCache EXCEPT ![req[s].query.val] = lastResp'.body]]_vars
  /\ [][((started' # started /\ req' = req) \/ navFailed' # navFailed
           \/ (lastResp' # lastResp /\ lastResp'.status # 200))
          => formCache' = formCache]_vars

C19_Witness ==
  /\ lastResp.status = 500 /\ lastResp.navs = 1 /\ lastResp.sess = "Authenticated"
  /\ pageDoc = lastResp.query.val
  /\ formCache[lastResp.query.val] = Absent
  /\ \E u \in URLs : formCache[u] # Absent

\* C20: a step of a fetch request leaves browser, page, session state and the
\* process alone, and an Authenticated session stays Authenticated until a
\* termination signal starts shutdown
C20_FetchKeepsSession ==
  /\ [][(started' # started \/ req' # req \/ lastResp' # lastResp)
          => /\ browser' = browser /\ persistentPage' = persistentPage
             /\ SessionState' = SessionState
             /\ exited' = exited /\ listening' = listening]_vars
  /\ [][(SessionState = "Authenticated")
          => (SessionState' = "Authenticated" \/ (SessionState' = "Closed" /\ sd' # sd))]_vars
  /\ []((navFailed /\ ~Signalled)
          => (SessionState = "Authenticated" /\ browser = "live" /\ persistentPage = "live"))

C20_Witness ==
  /\ navFailed /\ started = MaxRequests /\ lastResp.status = 500
  /\ SessionState = "Authenticated" /\ browser = "live" /\ persistentPage = "live"

====
